---- MODULE Spec2Model ----
(***************************************************************************)
(* A model of the column-mapping core of the Excel converter:              *)
(*   - transformData      (the projection engine, excelService part)       *)
(*   - analyzeExcelWithAI (the mapping inference client, both definitions  *)
(*                         found in geminiService.ts)                      *)
(*   - ExcelConverter     (the component's session state and its handlers) *)
(* JavaScript values are modelled as strings: a cell is a string, Null or  *)
(* Undefined; an object is the sequence of its own entries in insertion    *)
(* order; a thrown exception is a completion record of kind "throw".       *)
(***************************************************************************)
EXTENDS Integers, Sequences, FiniteSets, TLC

VARIABLES
    sourceData,      \* transformData: the `data` argument (an ExcelData)
    columnMapping,   \* transformData: the `columnMapping` argument
    outputHeaders,   \* transformData: the `outputHeaders` argument
    transformed,     \* transformData: the returned ExcelData, NoTable before the call
    dataAfter,       \* transformData: the `data` argument as the call left it
    GEMINI_API_KEY,  \* the module-level key read from the environment
    impl,            \* which of the two definitions of analyzeExcelWithAI is built
    args,            \* analyzeExcelWithAI: headers, sampleData, targetFormat
    pc,              \* analyzeExcelWithAI: "idle", "start", "awaitFetch", "done"
    requests,        \* the network requests issued so far (their prompts)
    outcome,         \* how the remote call settled, NoOutcome before it does
    result,          \* the settled promise of analyzeExcelWithAI, NoResult before
    ui,              \* ExcelConverter: its useState values
    crashed,         \* ExcelConverter: a render threw and the component is gone
    pendingReads,    \* the parseExcelFile calls in flight (their files), oldest first
    pendingAnalyses, \* the analyzeExcelWithAI calls in flight, oldest first
    lastDownload,    \* the file handleDownload wrote in the step just taken
    lastRead,        \* how the read that settled in the step just taken ended
    mappingFrom,     \* the table whose analysis gave ui.columnMapping (history)
    started          \* how many uploads and analyses were triggered (history)

vars == <<sourceData, columnMapping, outputHeaders, transformed, dataAfter,
          GEMINI_API_KEY, impl, args, pc, requests, outcome, result,
          ui, crashed, pendingReads, pendingAnalyses, lastDownload, lastRead,
          mappingFrom, started>>

transformVars == <<sourceData, columnMapping, outputHeaders, transformed, dataAfter>>
analyzeVars == <<GEMINI_API_KEY, impl, args, pc, requests, outcome, result>>
converterVars == <<ui, crashed, pendingReads, pendingAnalyses, lastDownload,
                   lastRead, mappingFrom, started>>

-----------------------------------------------------------------------------
(* Bounds of the model *)

MaxCols == 2        \* longest header row drawn
MaxTRows == 2       \* most rows of a table handed to transformData
MaxTargets == 2     \* target column names t1..tN a drawn mapping may have
MaxIndexKey == 2    \* largest integer a property key is compared with

-----------------------------------------------------------------------------
(* JavaScript values *)

\* a cell of a sheet is a string; these two stand for null and for a hole
Null == "<null>"
Undefined == "<undefined>"

\* the values an object member or a module constant can hold, tagged by type
Undef == [t |-> "undefined"]
Str(s) == [t |-> "string", s |-> s]
Arr(items) == [t |-> "array", items |-> items]
Obj(entries) == [t |-> "object", entries |-> entries]

Min(a, b) == IF a < b THEN a ELSE b

\* !v: undefined and '' are falsy, arrays and objects are truthy
Falsy(v) == v.t = "undefined" \/ (v.t = "string" /\ v.s = "")

\* obj[k]: the value of the entry with key k, undefined when there is none
Get(obj, k) ==
    IF \E i \in 1..Len(obj) : obj[i].k = k
    THEN obj[CHOOSE i \in 1..Len(obj) : obj[i].k = k].v
    ELSE Undef

\* obj[k] = v: an existing key keeps its place, a new key is appended
Put(obj, k, v) ==
    IF \E i \in 1..Len(obj) : obj[i].k = k
    THEN [i \in 1..Len(obj) |-> IF obj[i].k = k THEN [k |-> k, v |-> v] ELSE obj[i]]
    ELSE Append(obj, [k |-> k, v |-> v])

HasKey(obj, k) == \E i \in 1..Len(obj) : obj[i].k = k

\* the own keys of obj in the order they were inserted
InsertionKeys(obj) == [i \in 1..Len(obj) |-> obj[i].k]

\* a key that is the canonical decimal form of an integer ("0", "1", ...)
IsIndexKey(k) == \E n \in 0..MaxIndexKey : ToString(n) = k
IndexValue(k) == CHOOSE n \in 0..MaxIndexKey : ToString(n) = k

\* Object.keys(obj): the integer keys in ascending order, then the other keys
\* in insertion order
ObjectKeys(obj) ==
    LET keys == InsertionKeys(obj)
        ints == {k \in {keys[i] : i \in 1..Len(keys)} : IsIndexKey(k)}
        sorted == [p \in 1..Cardinality(ints) |->
                      CHOOSE k \in ints :
                          Cardinality({j \in ints : IndexValue(j) < IndexValue(k)}) = p - 1]
    IN  sorted \o SelectSeq(keys, LAMBDA k : ~IsIndexKey(k))

\* IndexOf as lastIndexOf would have it: the last equal element
IndexOfLast(arr, x) ==
    IF \E i \in 1..Len(arr) : arr[i] = x
    THEN (CHOOSE i \in 1..Len(arr) : arr[i] = x /\ \A j \in (i+1)..Len(arr) : arr[j] # x) - 1
    ELSE -1

\* arr.indexOf(x): 0-based index of the first strictly equal element, -1 if none
IndexOf(arr, x) ==
    IF \E i \in 1..Len(arr) : arr[i] = x
    THEN (CHOOSE i \in 1..Len(arr) : arr[i] = x /\ \A j \in 1..(i-1) : arr[j] # x) - 1
    ELSE -1

\* headers.indexOf(v) for a member value v: only a string can equal a header
IndexOfValue(arr, v) == IF v.t = "string" THEN IndexOf(arr, v.s) ELSE -1

\* arr[i] for a 0-based i: undefined past the end
At(arr, i) == IF i >= 0 /\ i < Len(arr) THEN arr[i + 1] ELSE Undefined

-----------------------------------------------------------------------------
(* transformData *)

\* TransformCell falling back to the first column when the source name is no header
TransformCellFallback(data, mapping, row, header) ==
    LET sourceHeader == Get(mapping, header)
    IN  IF Falsy(sourceHeader) THEN Null
        ELSE LET sourceIndex == IndexOfValue(data.headers, sourceHeader)
             IN  IF sourceIndex >= 0 THEN At(row, sourceIndex) ELSE At(row, 0)

\* the callback of outputHeaders.map: one cell of one output row
TransformCell(data, mapping, row, header) ==
    LET sourceHeader == Get(mapping, header)
    IN  IF Falsy(sourceHeader) THEN Null
        ELSE LET sourceIndex == IndexOfValue(data.headers, sourceHeader)
             IN  IF sourceIndex >= 0 THEN At(row, sourceIndex) ELSE Null

\* TransformedRows dropping the rows that come out empty
TransformedRowsNonEmpty(data, mapping, outHeaders) ==
    SelectSeq([r \in 1..Len(data.rows) |->
                  [c \in 1..Len(outHeaders) |->
                      TransformCell(data, mapping, data.rows[r], outHeaders[c])]],
              LAMBDA row : row # <<>>)

\* TransformedRows filling the output from the last source row upwards
TransformedRowsReversed(data, mapping, outHeaders) ==
    [r \in 1..Len(data.rows) |->
        [c \in 1..Len(outHeaders) |->
            TransformCell(data, mapping, data.rows[Len(data.rows) + 1 - r], outHeaders[c])]]

\* data.rows.map(row => outputHeaders.map(...))
TransformedRows(data, mapping, outHeaders) ==
    [r \in 1..Len(data.rows) |->
        [c \in 1..Len(outHeaders) |->
            TransformCell(data, mapping, data.rows[r], outHeaders[c])]]

\* what transformData returns
transformData(data, mapping, outHeaders) ==
    [headers |-> outHeaders,
     rows |-> TransformedRows(data, mapping, outHeaders),
     sheetName |-> data.sheetName]

\* what transformData leaves in its `data` argument: it only reads it
DataAfterTransform(data, mapping, outHeaders) == data

-----------------------------------------------------------------------------
(* Inputs of transformData *)

NoTable == [headers |-> <<"<none>">>, rows |-> <<>>, sheetName |-> "<none>"]

Names == {"", "a", "A"}            \* header names: empty, and two differing in case
SourceNames == Names \cup {"zz"}   \* what a mapping may point at; zz is no header

SeqsUpTo(S, n) == UNION {[1..k -> S] : k \in 0..n}

\* the cell of row r, column c: distinct everywhere, empty (null) on the diagonal
CellValue(r, c) == IF r = c THEN Null ELSE "r" \o ToString(r) \o "c" \o ToString(c)

\* rows are drawn by their lengths: one short of, equal to, or one past MaxCols
RowLengths == {MaxCols - 1, MaxCols, MaxCols + 1}

Tables ==
    {[headers |-> h,
      rows |-> [r \in 1..Len(ls) |-> [c \in 1..ls[r] |-> CellValue(r, c)]],
      sheetName |-> "Sheet1"] :
        h \in SeqsUpTo(Names, MaxCols), ls \in SeqsUpTo(RowLengths, MaxTRows)}

TargetName(i) == "t" \o ToString(i)
AllTargets == [i \in 1..MaxTargets |-> TargetName(i)]

RECURSIVE FromChoice(_, _)
\* the object { t_i: f[i] } over the i with f[i] present, keys inserted in order
FromChoice(f, n) ==
    IF n = 0 THEN <<>>
    ELSE LET rest == FromChoice(f, n - 1)
         IN  IF f[n] = Undefined THEN rest ELSE Put(rest, TargetName(n), Str(f[n]))

RECURSIVE IdentityMapping(_, _)
\* the object { n: n } for the first k names of hs, inserted in header order
IdentityMapping(hs, k) ==
    IF k = 0 THEN <<>> ELSE Put(IdentityMapping(hs, k - 1), hs[k], Str(hs[k]))

Mappings(data) ==
    {FromChoice(f, MaxTargets) : f \in [1..MaxTargets -> SourceNames \cup {Undefined}]}
    \cup {IdentityMapping(data.headers, Len(data.headers))}

OutputHeaderChoices(data, mapping) ==
    {<<>>, data.headers, AllTargets, ObjectKeys(mapping)}

-----------------------------------------------------------------------------
(* The analysis call is idle in the projection specification and vice versa *)

NoOutcome == [kind |-> "none"]
NoResult == [state |-> "pending"]
NoArgs == [headers |-> <<>>, sampleData |-> <<>>, targetFormat |-> ""]

AnalyzeIdle ==
    /\ GEMINI_API_KEY = Undef
    /\ impl = 1
    /\ args = NoArgs
    /\ pc = "idle"
    /\ requests = <<>>
    /\ outcome = NoOutcome
    /\ result = NoResult

TransformIdle ==
    /\ sourceData = NoTable
    /\ columnMapping = <<>>
    /\ outputHeaders = <<>>
    /\ transformed = NoTable
    /\ dataAfter = NoTable

NoDownload == [written |-> FALSE]

\* the useState initial values; NoTable stands for sourceData null
InitialUi ==
    [sourceData |-> NoTable,
     targetFormat |-> "",
     columnMapping |-> Obj(<<>>),
     suggestions |-> Arr(<<>>),
     loading |-> FALSE,
     analyzing |-> FALSE]

ConverterIdle ==
    /\ ui = InitialUi
    /\ crashed = FALSE
    /\ pendingReads = <<>>
    /\ pendingAnalyses = <<>>
    /\ lastDownload = NoDownload
    /\ lastRead = "none"
    /\ mappingFrom = NoTable
    /\ started = [uploads |-> 0, analyses |-> 0]

-----------------------------------------------------------------------------
(* The projection specification: one call of transformData on drawn inputs *)

InitTransform ==
    /\ sourceData \in Tables
    /\ columnMapping \in Mappings(sourceData)
    /\ outputHeaders \in OutputHeaderChoices(sourceData, columnMapping)
    /\ transformed = NoTable
    /\ dataAfter = sourceData
    /\ AnalyzeIdle
    /\ ConverterIdle

Transform ==
    /\ pc = "idle"
    /\ sourceData # NoTable
    /\ transformed = NoTable
    /\ transformed' = transformData(sourceData, columnMapping, outputHeaders)
    /\ dataAfter' = DataAfterTransform(sourceData, columnMapping, outputHeaders)
    /\ UNCHANGED <<sourceData, columnMapping, outputHeaders>>
    /\ UNCHANGED analyzeVars
    /\ UNCHANGED converterVars

NextTransform == Transform

SpecTransform == InitTransform /\ [][NextTransform]_vars

Called == transformed # NoTable

-----------------------------------------------------------------------------
(* Claims about transformData *)

Range(seq) == {seq[i] : i \in 1..Len(seq)}

\* the 1-based positions of x in arr
Positions(arr, x) == {i \in 1..Len(arr) : arr[i] = x}
Least(S) == CHOOSE i \in S : \A j \in S : i <= j

\* the call transformData(T, {n: n for each n in T.headers}, T.headers)
IsIdentityCall ==
    /\ columnMapping = IdentityMapping(sourceData.headers, Len(sourceData.headers))
    /\ outputHeaders = sourceData.headers

DistinctHeaders ==
    \A i, j \in 1..Len(sourceData.headers) :
        sourceData.headers[i] = sourceData.headers[j] => i = j
NoEmptyHeader == "" \notin Range(sourceData.headers)
Rectangular ==
    \A r \in 1..Len(sourceData.rows) : Len(sourceData.rows[r]) = Len(sourceData.headers)

\* C2 as claimed: the identity mapping reproduces the rows of every table exactly
C2_IdentityRoundTripsEveryTable ==
    (Called /\ IsIdentityCall) => transformed.rows = sourceData.rows

\* C2 amended: under the identity mapping, output column j of row r holds the
\* cell of the first source column named like column j (absent when the row is
\* shorter, null when the name is the empty string), so the rows are reproduced
\* exactly when the header names are distinct and non-empty and every row has
\* as many cells as there are headers
C2_IdentityRoundTrip ==
    (Called /\ IsIdentityCall) =>
        /\ Len(transformed.rows) = Len(sourceData.rows)
        /\ \A r \in 1..Len(sourceData.rows) :
              /\ Len(transformed.rows[r]) = Len(sourceData.headers)
              /\ \A j \in 1..Len(sourceData.headers) :
                    LET k == Least(Positions(sourceData.headers, sourceData.headers[j]))
                        row == sourceData.rows[r]
                    IN  transformed.rows[r][j] =
                            IF sourceData.headers[j] = "" THEN Null
                            ELSE IF k <= Len(row) THEN row[k] ELSE Undefined
        /\ (DistinctHeaders /\ NoEmptyHeader /\ Rectangular)
              => transformed.rows = sourceData.rows

C2_Witness ==
    /\ Called /\ IsIdentityCall
    /\ DistinctHeaders /\ NoEmptyHeader /\ Rectangular
    /\ Len(sourceData.headers) = 2
    /\ Len(sourceData.rows) = 2
    /\ transformed.rows = sourceData.rows

\* C3 as claimed: a present mapping entry whose source name is a header makes the
\* output column a copy of the first source column of that name, whatever the
\* name is; the output headers are outputHeaders in order
C3_MappedColumnCopied ==
    Called =>
        /\ transformed.headers = outputHeaders
        /\ \A c \in 1..Len(outputHeaders) :
              LET name == Get(columnMapping, outputHeaders[c])
                  at == IF name.t = "string"
                        THEN Positions(sourceData.headers, name.s) ELSE {}
              IN  (HasKey(columnMapping, outputHeaders[c]) /\ at # {}) =>
                    \A r \in 1..Len(sourceData.rows) :
                        LET row == sourceData.rows[r]
                        IN  IF Least(at) <= Len(row)
                            THEN transformed.rows[r][c] = row[Least(at)]
                            ELSE transformed.rows[r][c] \in {Null, Undefined}

\* the column of output header c has a mapping entry naming no source header,
\* or no mapping entry at all
Unmatched(c) ==
    \/ ~HasKey(columnMapping, outputHeaders[c])
    \/ Get(columnMapping, outputHeaders[c]) \notin {Str(h) : h \in Range(sourceData.headers)}

\* C4: an output column with no mapping entry, or whose mapped source name is no
\* source header, is null in every output row
C4_UnmatchedColumnNull ==
    Called =>
        \A c \in 1..Len(outputHeaders) :
            Unmatched(c) =>
                \A r \in 1..Len(sourceData.rows) : transformed.rows[r][c] = Null

C4_Witness ==
    /\ Called
    /\ Len(sourceData.rows) = 2
    /\ \E c, d \in 1..Len(outputHeaders) :
          /\ HasKey(columnMapping, outputHeaders[c])
          /\ Unmatched(c)
          /\ ~HasKey(columnMapping, outputHeaders[d])
          /\ \A r \in 1..Len(sourceData.rows) :
                transformed.rows[r][c] = Null /\ transformed.rows[r][d] = Null
    /\ \E r \in 1..Len(sourceData.rows) : Len(sourceData.rows[r]) > 0

\* C5: transformData(T, {}, []) has no headers and one empty row per row of T
C5_EmptyProjection ==
    (Called /\ columnMapping = <<>> /\ outputHeaders = <<>>) =>
        /\ transformed.headers = <<>>
        /\ Len(transformed.rows) = Len(sourceData.rows)
        /\ \A r \in 1..Len(transformed.rows) : transformed.rows[r] = <<>>

C5_Witness ==
    /\ Called /\ columnMapping = <<>> /\ outputHeaders = <<>>
    /\ Len(sourceData.headers) > 0
    /\ Len(sourceData.rows) = 2
    /\ transformed.rows = <<<<>>, <<>>>>

\* C6: the output has as many rows as the source, output row r is drawn from
\* source row r alone, and the source table is left as it was
C6_RowsKeptSourceUntouched ==
    Called =>
        /\ Len(transformed.rows) = Len(sourceData.rows)
        /\ \A r \in 1..Len(transformed.rows) :
              \A c \in 1..Len(transformed.rows[r]) :
                  \/ transformed.rows[r][c] \in {Null, Undefined}
                  \/ transformed.rows[r][c] \in Range(sourceData.rows[r])
        /\ dataAfter = sourceData
        /\ transformed.sheetName = sourceData.sheetName

C6_Witness ==
    /\ Called
    /\ Len(sourceData.rows) = 2
    /\ Len(transformed.rows) = 2
    /\ \A r \in 1..2 :
          \E c \in 1..Len(transformed.rows[r]) :
              transformed.rows[r][c] \notin {Null, Undefined}
    /\ transformed.rows[1] # transformed.rows[2]
    /\ dataAfter = sourceData

-----------------------------------------------------------------------------
(* analyzeExcelWithAI: the prompt *)

MaxRows == 4        \* most rows of a table handed to analyzeExcelWithAI
MaxSegs == 3        \* most fragments a generated text payload is made of

SampleLimit == 3    \* sampleData.slice(0, 3)

\* arr.slice(0, end) keeping every row: the whole table would be sent
SliceAll(arr, start, end) == arr

\* arr.slice(start, end) for 0 <= start <= end
Slice(arr, start, end) == SubSeq(arr, start + 1, Min(end, Len(arr)))

RECURSIVE Join(_, _)
\* arr.join(sep): null and undefined elements render as the empty string
Join(arr, sep) ==
    IF Len(arr) = 0 THEN ""
    ELSE LET last == arr[Len(arr)]
             piece == IF last \in {Null, Undefined} THEN "" ELSE last
         IN  IF Len(arr) = 1 THEN piece
             ELSE Join(SubSeq(arr, 1, Len(arr) - 1), sep) \o sep \o piece

\* the three interpolations of the prompt template; the sample lines, which the
\* template joins with newlines, are kept apart
BuildPrompt(headers, sampleData, targetFormat) ==
    LET sample == Slice(sampleData, 0, SampleLimit)
    IN  [headers |-> Join(headers, ", "),
         sample |-> [i \in 1..Len(sample) |-> Join(sample[i], " | ")],
         targetFormat |-> targetFormat]

-----------------------------------------------------------------------------
(* analyzeExcelWithAI: the text payload and its decoding *)

\* A text payload is a sequence of characters.  "{" and "}" are themselves; "p"
\* is a character of prose; the others stand for brace-free pieces of JSON text:
\*   "m"  "columnMapping":      (a key, to be followed by an object)
\*   "e"  "t1":"a"              (a member, with its separator)
\*   "i"  "1":"A"               (a member whose key is an integer)
\*   "s"  "suggestions":["tip"] (a member, with its separator)
NoMatch == <<Null>>

\* text.match(/\{[\s\S]*\}/) stopping at the first "}" after the "{"
JsonMatchLazy(text) ==
    LET starts == {i \in 1..Len(text) :
                      text[i] = "{" /\ \E j \in (i+1)..Len(text) : text[j] = "}"}
    IN  IF starts = {} THEN NoMatch
        ELSE LET i == CHOOSE a \in starts : \A b \in starts : a <= b
                 ends == {j \in (i+1)..Len(text) : text[j] = "}"}
                 j == CHOOSE a \in ends : \A b \in ends : a <= b
             IN  SubSeq(text, i, j)

\* text.match(/\{[\s\S]*\}/): the regex engine tries each start position from the
\* left; at a "{" the greedy [\s\S]* takes everything and backs off to the last "}"
JsonMatch(text) ==
    LET starts == {i \in 1..Len(text) :
                      text[i] = "{" /\ \E j \in (i+1)..Len(text) : text[j] = "}"}
    IN  IF starts = {} THEN NoMatch
        ELSE LET i == CHOOSE a \in starts : \A b \in starts : a <= b
                 ends == {j \in (i+1)..Len(text) : text[j] = "}"}
                 j == CHOOSE a \in ends : \A b \in ends : a >= b
             IN  SubSeq(text, i, j)

ParseFail == [ok |-> FALSE]

RECURSIVE ParseObject(_, _)
RECURSIVE ParseMembers(_, _, _)
\* JSON.parse at position i, which must open an object: [ok, value, next]
ParseObject(s, i) ==
    IF i > Len(s) \/ s[i] # "{" THEN ParseFail ELSE ParseMembers(s, i + 1, <<>>)

\* the members of an object up to its closing brace; a repeated key keeps its
\* place and takes the later value
ParseMembers(s, i, acc) ==
    IF i > Len(s) THEN ParseFail
    ELSE IF s[i] = "}" THEN [ok |-> TRUE, value |-> acc, next |-> i + 1]
    ELSE IF s[i] = "e" THEN ParseMembers(s, i + 1, Put(acc, "t1", Str("a")))
    ELSE IF s[i] = "i" THEN ParseMembers(s, i + 1, Put(acc, "1", Str("A")))
    ELSE IF s[i] = "s"
         THEN ParseMembers(s, i + 1, Put(acc, "suggestions", Arr(<<Str("tip")>>)))
    ELSE IF s[i] = "m"
         THEN LET inner == ParseObject(s, i + 1)
              IN  IF inner.ok
                  THEN ParseMembers(s, inner.next,
                                    Put(acc, "columnMapping", Obj(inner.value)))
                  ELSE ParseFail
    ELSE ParseFail

\* JSON.parse(s) for a span s: the whole span must be one object
JSONparse(s) ==
    LET r == ParseObject(s, 1)
    IN  IF r.ok /\ r.next = Len(s) + 1 THEN [ok |-> TRUE, value |-> r.value]
        ELSE ParseFail

-----------------------------------------------------------------------------
(* analyzeExcelWithAI: completions, and the two definitions *)

Return(v) == [kind |-> "return", value |-> v]
Throw(msg) == [kind |-> "throw", message |-> msg]

\* the promise an async function body's completion settles
Settled(c) ==
    IF c.kind = "return" THEN [state |-> "resolved", value |-> c.value]
    ELSE [state |-> "rejected", reason |-> c.message]

\* { columnMapping: {}, suggestions: [message] }
Failure(message) ==
    <<[k |-> "columnMapping", v |-> Obj(<<>>)],
      [k |-> "suggestions", v |-> Arr(<<Str(message)>>)]>>

MsgNoKey == "API key is not set."                 \* 'API 키가 설정되지 않았습니다.'
MsgApiError == "API error: "                      \* `API 오류: ${...}`
MsgEmpty == "AI response is empty."               \* 'AI 응답이 비어있습니다.'
MsgUnparsable == "AI response cannot be parsed."  \* 'AI 응답을 파싱할 수 없습니다.'
MsgAnalysisError == "AI analysis error: "         \* `AI 분석 중 오류: ${...}`
MsgAnalysisFailed == "AI analysis failed."        \* 'AI 분석 중 오류가 발생했습니다.'
MsgRequestFailed == "AI analysis request failed"  \* Error('AI 분석 요청 실패')
MsgSyntaxError == "Unexpected token in JSON"      \* SyntaxError of response.json()
MsgTypeError == "Cannot read properties"          \* TypeError of a member read

\* data.candidates?.[0]?.content?.parts?.[0]?.text || ''
TextOf1(body) == IF body.candidates = "text" THEN body.text ELSE <<>>

\* the try block of the first definition, from the settled fetch on
TryBody1(o) ==
    IF o.kind = "reject" THEN Throw(o.message)
    ELSE IF o.body.form = "nonjson" THEN Throw(MsgSyntaxError)
    ELSE IF ~o.ok
         THEN IF o.body.form = "null" THEN Throw(MsgTypeError)
              ELSE Return(Failure(MsgApiError \o
                       (IF Falsy(o.body.error) THEN o.statusText ELSE o.body.error.s)))
    ELSE IF o.body.form = "null" THEN Throw(MsgTypeError)
    ELSE LET text == TextOf1(o.body)
         IN  IF text = <<>> THEN Return(Failure(MsgEmpty))
             ELSE LET jsonMatch == JsonMatch(text)
                  IN  IF jsonMatch # NoMatch
                      THEN LET parsed == JSONparse(jsonMatch)
                           IN  IF parsed.ok THEN Return(parsed.value)
                               ELSE Return(Failure(MsgUnparsable))
                      ELSE Return(Failure(MsgUnparsable))

\* the catch block of the first definition; what fetch and the runtime throw
\* are Error instances
Catch1(message) == Return(Failure(MsgAnalysisError \o message))

\* the first definition after its fetch settles with o
AfterFetch1(o) ==
    LET c == TryBody1(o)
    IN  Settled(IF c.kind = "throw" THEN Catch1(c.message) ELSE c)

\* the try block of the second definition, from the settled fetch on
TryBody2(o) ==
    IF o.kind = "reject" THEN Throw(o.message)
    ELSE IF ~o.ok THEN Throw(MsgRequestFailed)
    ELSE IF o.body.form = "nonjson" THEN Throw(MsgSyntaxError)
    ELSE IF o.body.form = "null" \/ o.body.candidates = "missing" THEN Throw(MsgTypeError)
    ELSE LET text == IF o.body.candidates = "text" THEN o.body.text ELSE <<>>
             jsonMatch == JsonMatch(text)
         IN  IF jsonMatch # NoMatch
             THEN LET parsed == JSONparse(jsonMatch)
                  IN  IF parsed.ok THEN Return(parsed.value)
                      ELSE Throw(MsgSyntaxError)
             ELSE Return(Failure(MsgUnparsable))

\* the catch block of the second definition
Catch2(message) == Return(Failure(MsgAnalysisFailed))

\* the second definition after its fetch settles with o
AfterFetch2(o) ==
    LET c == TryBody2(o)
    IN  Settled(IF c.kind = "throw" THEN Catch2(c.message) ELSE c)

-----------------------------------------------------------------------------
(* Inputs of analyzeExcelWithAI and outcomes of the remote call *)

\* the table of n rows handed over by handleAnalyze: its headers and all its rows
AnalysisArgs ==
    {[headers |-> <<"a", "A">>,
      sampleData |-> [r \in 1..n |-> <<CellValue(r, 1), CellValue(r, 2)>>],
      targetFormat |-> "name, team"] : n \in 0..MaxRows}

\* import.meta.env.VITE_GEMINI_API_KEY: unset, set to nothing, or set
ApiKeys == {Undef, Str(""), Str("key")}

FullObject == <<"{", "m", "{", "e", "}", "s", "}">>
Fragments == {<<"p">>, <<"{">>, <<"}">>, <<"e">>, FullObject}

RECURSIVE TextsOf(_)
\* the payloads made of exactly n fragments
TextsOf(n) ==
    IF n = 0 THEN {<<>>} ELSE {t \o f : t \in TextsOf(n - 1), f \in Fragments}

Texts == UNION {TextsOf(n) : n \in 0..MaxSegs}

NoBody == [form |-> "nonjson", error |-> Undef, candidates |-> "missing", text |-> <<>>]

\* the body of a response: not JSON, the JSON null, or a JSON object with or
\* without error.message and with candidates missing, empty or carrying a text
Bodies ==
    {NoBody, [NoBody EXCEPT !.form = "null"]}
    \cup {[form |-> "object", error |-> e, candidates |-> c, text |-> <<>>] :
            e \in {Undef, Str("quota exceeded")}, c \in {"missing", "empty"}}
    \cup {[form |-> "object", error |-> e, candidates |-> "text", text |-> t] :
            e \in {Undef, Str("quota exceeded")}, t \in Texts}

\* fetch rejects (a network failure), or resolves to a response
Outcomes ==
    {[kind |-> "reject", message |-> "Failed to fetch"]}
    \cup {[kind |-> "response", ok |-> TRUE, statusText |-> "OK", body |-> b] :
            b \in Bodies}
    \cup {[kind |-> "response", ok |-> FALSE, statusText |-> "Bad Gateway", body |-> b] :
            b \in Bodies}

-----------------------------------------------------------------------------
(* The analysis specification: one call of analyzeExcelWithAI *)

InitAnalyze ==
    /\ GEMINI_API_KEY \in ApiKeys
    /\ impl \in {1, 2}
    /\ args \in AnalysisArgs
    /\ pc = "start"
    /\ requests = <<>>
    /\ outcome = NoOutcome
    /\ result = NoResult
    /\ TransformIdle
    /\ ConverterIdle

\* the call up to its first await: the first definition returns at once without
\* a key, otherwise the prompt is built and the request is sent
Call ==
    /\ pc = "start"
    /\ IF impl = 1 /\ Falsy(GEMINI_API_KEY)
       THEN /\ result' = Settled(Return(Failure(MsgNoKey)))
            /\ pc' = "done"
            /\ UNCHANGED requests
       ELSE /\ requests' = Append(requests,
                   BuildPrompt(args.headers, args.sampleData, args.targetFormat))
            /\ pc' = "awaitFetch"
            /\ UNCHANGED result
    /\ UNCHANGED <<GEMINI_API_KEY, impl, args, outcome>>
    /\ UNCHANGED transformVars
    /\ UNCHANGED converterVars

\* the remote call settles and the function runs to its end
FetchSettles ==
    /\ pc = "awaitFetch"
    /\ \E o \in Outcomes :
          /\ outcome' = o
          /\ result' = IF impl = 1 THEN AfterFetch1(o) ELSE AfterFetch2(o)
    /\ pc' = "done"
    /\ UNCHANGED <<GEMINI_API_KEY, impl, args, requests>>
    /\ UNCHANGED transformVars
    /\ UNCHANGED converterVars

NextAnalyze == Call \/ FetchSettles

SpecAnalyze == InitAnalyze /\ [][NextAnalyze]_vars

-----------------------------------------------------------------------------
(* Claims about analyzeExcelWithAI *)

Done == pc = "done"

\* the remote call succeeded with a text payload
GotText ==
    /\ outcome.kind = "response"
    /\ outcome.ok
    /\ outcome.body.form = "object"
    /\ outcome.body.candidates = "text"
    /\ outcome.body.text # <<>>

\* the result is what decoding a span of the payload gave
Decoded ==
    /\ GotText
    /\ JsonMatch(outcome.body.text) # NoMatch
    /\ JSONparse(JsonMatch(outcome.body.text)).ok

\* the resolved value has a columnMapping object and a suggestions sequence
HasResultShape(value) ==
    /\ Get(value, "columnMapping").t = "object"
    /\ Get(value, "suggestions").t = "array"

\* C1 as claimed, of the first definition: whatever the remote call does, the
\* call resolves to an object with a columnMapping object and a suggestions
\* sequence, and suggestions is not empty when the mapping is empty on an error
\* path
C1_AlwaysMappingAndSuggestions ==
    (Done /\ impl = 1) =>
        /\ result.state = "resolved"
        /\ HasResultShape(result.value)
        /\ (~Decoded /\ Get(result.value, "columnMapping") = Obj(<<>>))
              => Get(result.value, "suggestions").items # <<>>

\* the positions of the braces of a payload
Opens(t) == {i \in 1..Len(t) : t[i] = "{"}
Closes(t) == {i \in 1..Len(t) : t[i] = "}"}
Greatest(S) == CHOOSE i \in S : \A j \in S : i >= j

\* C7: on a successful call with a text payload, the span handed to the decoder
\* runs from the leftmost "{" to the rightmost "}" of the payload, and a payload
\* made of text without "{", one JSON object, and text without "}" resolves to
\* exactly that object, so to its columnMapping and its suggestions
C7_LeftmostToRightmostSpan ==
    (Done /\ GotText) =>
        LET t == outcome.body.text
        IN  /\ JsonMatch(t) # NoMatch =>
                 /\ Opens(t) # {} /\ Closes(t) # {}
                 /\ JsonMatch(t) = SubSeq(t, Least(Opens(t)), Greatest(Closes(t)))
            /\ \A i, j \in 1..Len(t) :
                 ( /\ i < j
                   /\ Opens(SubSeq(t, 1, i - 1)) = {}
                   /\ Closes(SubSeq(t, j + 1, Len(t))) = {}
                   /\ JSONparse(SubSeq(t, i, j)).ok )
                 => /\ result.state = "resolved"
                    /\ result.value = JSONparse(SubSeq(t, i, j)).value

C7_Witness ==
    /\ Done /\ GotText
    /\ outcome.body.text = <<"p">> \o FullObject \o <<"p">>
    /\ result.state = "resolved"
    /\ Get(result.value, "columnMapping") = Obj(<<[k |-> "t1", v |-> Str("a")]>>)
    /\ Get(result.value, "suggestions") = Arr(<<Str("tip")>>)

\* C8: every prompt sent holds the first min(3, rowCount) rows of the table, in
\* order, and no other row
C8_AtMostThreeSampleRows ==
    \A q \in 1..Len(requests) :
        LET sent == requests[q].sample
            rows == args.sampleData
        IN  /\ Len(sent) <= 3
            /\ Len(sent) = Min(3, Len(rows))
            /\ \A i \in 1..Len(sent) : sent[i] = Join(rows[i], " | ")
            /\ \A i \in 1..Len(rows) : i > 3 => Join(rows[i], " | ") \notin Range(sent)

C8_Witness ==
    /\ Len(requests) = 1
    /\ Len(args.sampleData) > 3
    /\ requests[1].sample = <<" | r1c2", "r2c1 | ", "r3c1 | r3c2">>

\* C9 as claimed: without an API key the call resolves at once to the empty
\* mapping with the configuration-error suggestion, and sends no request
C9_NoKeyNoRequest ==
    (Falsy(GEMINI_API_KEY) /\ pc \in {"awaitFetch", "done"}) =>
        /\ requests = <<>>
        /\ pc = "done"
        /\ result = Settled(Return(Failure(MsgNoKey)))

\* the transport call failed: a network error or a non-success status
TransportFailed ==
    \/ outcome.kind = "reject"
    \/ outcome.kind = "response" /\ ~outcome.ok

\* what the failure suggestion is to carry: the network error's message, the
\* provider's error message when the body has one, the status text otherwise
FailureDetail ==
    IF outcome.kind = "reject" THEN outcome.message
    ELSE IF outcome.body.form = "object" /\ ~Falsy(outcome.body.error)
         THEN outcome.body.error.s
    ELSE outcome.statusText

\* C10 as claimed, of the first definition: a failed transport call resolves to
\* the empty mapping and one suggestion, which carries the provider's message,
\* else the status text (or the network error's message)
C10_TransportFailureReported ==
    (Done /\ impl = 1 /\ TransportFailed) =>
        /\ result.state = "resolved"
        /\ Get(result.value, "columnMapping") = Obj(<<>>)
        /\ \E prefix \in {MsgApiError, MsgAnalysisError} :
              Get(result.value, "suggestions") = Arr(<<Str(prefix \o FailureDetail)>>)

-----------------------------------------------------------------------------
(* ExcelConverter: uploaded files and parseExcelFile *)

MaxUploads == 2     \* most uploads triggered in a session
MaxAnalyses == 2    \* most analyses triggered in a session

\* a worksheet as sheet_to_json(..., { header: 1 }) gives it: an array of rows
SheetA == [name |-> "Staff",
           aoa |-> <<<<"a", "A">>>> \o
                   [r \in 1..2 |-> <<CellValue(r, 1), CellValue(r, 2)>>]]
SheetB == [name |-> "Teams", aoa |-> <<<<"A">>, <<"r1c1">>>>]

\* what can be uploaded: a file the reader fails on, bytes XLSX.read rejects,
\* and workbooks of zero, one and two sheets
Files ==
    {[kind |-> "unreadable", sheets |-> <<>>],
     [kind |-> "corrupt", sheets |-> <<>>],
     [kind |-> "workbook", sheets |-> <<>>],
     [kind |-> "workbook", sheets |-> <<SheetA>>],
     [kind |-> "workbook", sheets |-> <<SheetB, SheetA>>]}

MsgReadError == "file read error"      \* Error('파일을 읽는 중 오류가 발생했습니다.')
MsgWorkbookError == "unsupported file" \* what XLSX.read throws

\* the callback of workbook.SheetNames.map
SheetToExcelData(sheet) ==
    [headers |-> IF Len(sheet.aoa) = 0 THEN <<>> ELSE sheet.aoa[1],
     rows |-> IF Len(sheet.aoa) = 0 THEN <<>> ELSE Tail(sheet.aoa),
     sheetName |-> sheet.name]

\* the promise parseExcelFile(file) settles to
parseExcelFile(file) ==
    IF file.kind = "unreadable" THEN [state |-> "rejected", reason |-> MsgReadError]
    ELSE IF file.kind = "corrupt" THEN [state |-> "rejected", reason |-> MsgWorkbookError]
    ELSE [state |-> "resolved",
          value |-> [i \in 1..Len(file.sheets) |-> SheetToExcelData(file.sheets[i])]]

-----------------------------------------------------------------------------
(* ExcelConverter: the handlers, as functions of the useState values *)

\* processFile up to its await
ProcessFileStart(u) == [u EXCEPT !.loading = TRUE]

\* processFile keeping the mapping and the suggestions of the previous file
ProcessFileSettledKeeping(u, parsed) ==
    LET afterTry ==
            IF parsed.state = "resolved" /\ Len(parsed.value) > 0
            THEN [u EXCEPT !.sourceData = parsed.value[1]]
            ELSE u
    IN  [afterTry EXCEPT !.loading = FALSE]

\* processFile storing the last sheet of the workbook
ProcessFileSettledLastSheet(u, parsed) ==
    LET afterTry ==
            IF parsed.state = "resolved" /\ Len(parsed.value) > 0
            THEN [u EXCEPT !.sourceData = parsed.value[Len(parsed.value)],
                           !.columnMapping = Obj(<<>>),
                           !.suggestions = Arr(<<>>)]
            ELSE u
    IN  [afterTry EXCEPT !.loading = FALSE]

\* processFile from the settled parseExcelFile on: try, catch (an alert), finally
ProcessFileSettled(u, parsed) ==
    LET afterTry ==
            IF parsed.state = "resolved" /\ Len(parsed.value) > 0
            THEN [u EXCEPT !.sourceData = parsed.value[1],
                           !.columnMapping = Obj(<<>>),
                           !.suggestions = Arr(<<>>)]
            ELSE u
    IN  [afterTry EXCEPT !.loading = FALSE]

\* the disabled attribute of the analyze button
AnalyzeDisabled(u) ==
    u.sourceData = NoTable \/ u.targetFormat = "" \/ u.analyzing

\* handleAnalyze up to its await
HandleAnalyzeStart(u) == [u EXCEPT !.analyzing = TRUE]

\* handleAnalyze without its finally block
HandleAnalyzeSettledNoFinally(u, r) ==
    IF r.state = "resolved"
    THEN [u EXCEPT !.columnMapping = Get(r.value, "columnMapping"),
                   !.suggestions = Get(r.value, "suggestions")]
    ELSE u

\* handleAnalyze from the settled analyzeExcelWithAI on: try, catch (an alert),
\* finally
HandleAnalyzeSettled(u, r) ==
    LET afterTry ==
            IF r.state = "resolved"
            THEN [u EXCEPT !.columnMapping = Get(r.value, "columnMapping"),
                           !.suggestions = Get(r.value, "suggestions")]
            ELSE u
    IN  [afterTry EXCEPT !.analyzing = FALSE]

\* handleReset
HandleReset(u) ==
    [u EXCEPT !.sourceData = NoTable,
              !.targetFormat = "",
              !.columnMapping = Obj(<<>>),
              !.suggestions = Arr(<<>>)]

\* createExcelFile([data], name): one sheet, the header row then the data rows
createExcelFile(data) ==
    [sheetName |-> data.sheetName, aoa |-> <<data.headers>> \o data.rows]

\* handleDownload past its guard
HandleDownloadFile(u) ==
    LET outHeaders == ObjectKeys(u.columnMapping.entries)
    IN  createExcelFile(transformData(u.sourceData, u.columnMapping.entries, outHeaders))

\* the render of the component throws: Object.keys of a columnMapping that is
\* no object, or, with a mapping shown, suggestions.length of no array or an
\* object rendered as a child
RenderThrows(u) ==
    \/ u.columnMapping.t # "object"
    \/ /\ Len(u.columnMapping.entries) > 0
       /\ \/ u.suggestions.t # "array"
          \/ \E i \in 1..Len(u.columnMapping.entries) :
                u.columnMapping.entries[i].v.t = "object"

-----------------------------------------------------------------------------
(* The converter specification: a session of the ExcelConverter component.
   ui holds the values last given to the useState setters; pendingReads and
   pendingAnalyses are the awaits in flight; outcome and result are those of
   the analysis that settled last; lastDownload is the file written by the
   step just taken, if it wrote one. *)

ConverterFormats == {"", "name, team"}

\* payloads the service answers with: prose around the full object, an object
\* whose mapping has an integer-like key, and an object without members
ConverterTexts ==
    {<<"p">> \o FullObject \o <<"p">>,
     <<"{", "m", "{", "e", "i", "}", "s", "}">>,
     <<"{", "}">>}

ConverterOutcomes ==
    {[kind |-> "reject", message |-> "Failed to fetch"]}
    \cup {[kind |-> "response", ok |-> TRUE, statusText |-> "OK",
           body |-> [form |-> "object", error |-> Undef,
                     candidates |-> "text", text |-> t]] : t \in ConverterTexts}

InitConverter ==
    /\ GEMINI_API_KEY \in {Undef, Str("key")}
    /\ impl \in {1, 2}
    /\ args = NoArgs
    /\ pc = "idle"
    /\ requests = <<>>
    /\ outcome = NoOutcome
    /\ result = NoResult
    /\ TransformIdle
    /\ ConverterIdle

\* s without its i-th element
RemoveAt(s, i) == [j \in 1..(Len(s) - 1) |-> IF j < i THEN s[j] ELSE s[j + 1]]

\* handleFileInput or handleDrop with a file: processFile runs to its await.
\* Nothing in the render reads loading, so a read in flight does not prevent it.
ProcessFile ==
    /\ ~crashed
    /\ started.uploads < MaxUploads
    /\ \E f \in Files : pendingReads' = Append(pendingReads, [file |-> f])
    /\ ui' = ProcessFileStart(ui)
    /\ started' = [started EXCEPT !.uploads = @ + 1]
    /\ lastDownload' = NoDownload
    /\ lastRead' = "none"
    /\ UNCHANGED <<crashed, pendingAnalyses, mappingFrom>>
    /\ UNCHANGED analyzeVars
    /\ UNCHANGED transformVars

\* a parseExcelFile in flight settles and its processFile runs to its end
ReadSettles ==
    /\ \E i \in 1..Len(pendingReads) :
          LET parsed == parseExcelFile(pendingReads[i].file)
          IN  /\ ui' = ProcessFileSettled(ui, parsed)
              /\ pendingReads' = RemoveAt(pendingReads, i)
              /\ mappingFrom' = IF parsed.state = "resolved" /\ Len(parsed.value) > 0
                                THEN NoTable ELSE mappingFrom
              /\ lastRead' = IF parsed.state = "rejected" THEN "rejected"
                             ELSE IF Len(parsed.value) = 0 THEN "empty"
                             ELSE "stored"
    /\ crashed' = (crashed \/ RenderThrows(ui'))
    /\ lastDownload' = NoDownload
    /\ UNCHANGED <<pendingAnalyses, started>>
    /\ UNCHANGED analyzeVars
    /\ UNCHANGED transformVars

\* the onChange of the target-format textarea
SetTargetFormat ==
    /\ ~crashed
    /\ \E v \in ConverterFormats :
          /\ v # ui.targetFormat
          /\ ui' = [ui EXCEPT !.targetFormat = v]
    /\ lastDownload' = NoDownload
    /\ lastRead' = "none"
    /\ UNCHANGED <<crashed, pendingReads, pendingAnalyses, mappingFrom, started>>
    /\ UNCHANGED analyzeVars
    /\ UNCHANGED transformVars

\* a click on the analyze button: handleAnalyze runs to its await with the
\* table and the format of this render
HandleAnalyze ==
    /\ ~crashed
    /\ ~AnalyzeDisabled(ui)
    /\ ui.sourceData # NoTable /\ ui.targetFormat # ""
    /\ started.analyses < MaxAnalyses
    /\ ui' = HandleAnalyzeStart(ui)
    /\ pendingAnalyses' = Append(pendingAnalyses, [table |-> ui.sourceData])
    /\ started' = [started EXCEPT !.analyses = @ + 1]
    /\ lastDownload' = NoDownload
    /\ lastRead' = "none"
    /\ UNCHANGED <<crashed, pendingReads, mappingFrom>>
    /\ UNCHANGED analyzeVars
    /\ UNCHANGED transformVars

\* an analyzeExcelWithAI in flight settles and its handleAnalyze runs to its end
AnalysisSettles ==
    /\ \E i \in 1..Len(pendingAnalyses) :
          /\ IF impl = 1 /\ Falsy(GEMINI_API_KEY)
             THEN /\ result' = Settled(Return(Failure(MsgNoKey)))
                  /\ outcome' = NoOutcome
             ELSE \E o \in ConverterOutcomes :
                     /\ outcome' = o
                     /\ result' = IF impl = 1 THEN AfterFetch1(o) ELSE AfterFetch2(o)
          /\ ui' = HandleAnalyzeSettled(ui, result')
          /\ mappingFrom' = IF result'.state = "resolved"
                            THEN pendingAnalyses[i].table ELSE mappingFrom
          /\ pendingAnalyses' = RemoveAt(pendingAnalyses, i)
    /\ crashed' = (crashed \/ RenderThrows(ui'))
    /\ UNCHANGED <<GEMINI_API_KEY, impl, args, pc, requests>>
    /\ lastDownload' = NoDownload
    /\ lastRead' = "none"
    /\ UNCHANGED <<pendingReads, started>>
    /\ UNCHANGED transformVars

\* a click on the download button, which is rendered while the mapping has keys
HandleDownload ==
    /\ ~crashed
    /\ Len(ObjectKeys(ui.columnMapping.entries)) > 0
    /\ lastDownload' =
          IF ui.sourceData = NoTable \/ Len(ObjectKeys(ui.columnMapping.entries)) = 0
          THEN NoDownload
          ELSE [written |-> TRUE,
                file |-> HandleDownloadFile(ui),
                source |-> ui.sourceData,
                mapping |-> ui.columnMapping.entries]
    /\ lastRead' = "none"
    /\ UNCHANGED <<ui, crashed, pendingReads, pendingAnalyses, mappingFrom, started>>
    /\ UNCHANGED analyzeVars
    /\ UNCHANGED transformVars

\* a click on the reset button, which is rendered while a table is stored
ResetClicked ==
    /\ ~crashed
    /\ ui.sourceData # NoTable
    /\ ui' = HandleReset(ui)
    /\ mappingFrom' = NoTable
    /\ lastDownload' = NoDownload
    /\ lastRead' = "none"
    /\ UNCHANGED <<crashed, pendingReads, pendingAnalyses, started>>
    /\ UNCHANGED analyzeVars
    /\ UNCHANGED transformVars

Next ==
    \/ ProcessFile
    \/ ReadSettles
    \/ SetTargetFormat
    \/ HandleAnalyze
    \/ AnalysisSettles
    \/ HandleDownload
    \/ ResetClicked

Spec == InitConverter /\ [][Next]_vars

\* every await in flight settles: the reader calls onload or onerror, and the
\* request resolves or rejects
FairSpec == Spec /\ WF_vars(ReadSettles) /\ WF_vars(AnalysisSettles)

-----------------------------------------------------------------------------
(* Claims about the converter session *)

\* the mapping and the suggestions are both empty
Cleared(u) == u.columnMapping = Obj(<<>>) /\ u.suggestions = Arr(<<>>)

\* this step is the completion of the i-th read in flight
ReadDone(i) == i \in 1..Len(pendingReads) /\ pendingReads' = RemoveAt(pendingReads, i)

\* the file parses to at least one sheet, so processFile stores a new table
Stores(file) ==
    parseExcelFile(file).state = "resolved" /\ Len(parseExcelFile(file).value) > 0

\* this step is the completion of an analysis in flight
AnalysisDone == Len(pendingAnalyses') < Len(pendingAnalyses)

\* this step is a reset
ResetDone == ui.sourceData # NoTable /\ ui'.sourceData = NoTable

\* C11: every upload that stores a new table and every reset leave the stored
\* ColumnMapping and Suggestions empty, and every completed analysis leaves
\* them equal to the columnMapping and suggestions members of its own result,
\* whatever was stored before.
C11_ClearedOrReplacedWholesale ==
    [][/\ \A i \in 1..Len(pendingReads) :
             ReadDone(i) /\ Stores(pendingReads[i].file) => Cleared(ui')
       /\ ResetDone => Cleared(ui')
       /\ AnalysisDone =>
             /\ ui'.columnMapping = Get(result'.value, "columnMapping")
             /\ ui'.suggestions = Get(result'.value, "suggestions")]_vars

\* an analysis stored a mapping with entries, and a later upload or reset
\* followed by an upload left a table with nothing mapped
C11_Witness ==
    /\ result.state = "resolved"
    /\ Get(result.value, "columnMapping").t = "object"
    /\ Len(Get(result.value, "columnMapping").entries) > 0
    /\ pendingAnalyses = <<>>
    /\ pendingReads = <<>>
    /\ ui.sourceData # NoTable
    /\ Cleared(ui)

\* C12: at most one file read and at most one inference round-trip are in
\* flight at any time, and the analyze control is disabled while its
\* round-trip is pending.
C12_AtMostOneInFlight ==
    /\ Len(pendingReads) <= 1
    /\ Len(pendingAnalyses) <= 1
    /\ pendingAnalyses # <<>> => AnalyzeDisabled(ui)


\* C13: every triggered analysis and every triggered file read settles, the
\* step in which an analysis settles leaves analyzing false and the step in
\* which a read settles leaves loading false, so a flag that is true becomes
\* false again.
C13_FlagsReturnToFalse ==
    /\ [][AnalysisDone => ~ui'.analyzing]_vars
    /\ [][(\E i \in 1..Len(pendingReads) : ReadDone(i)) => ~ui'.loading]_vars
    /\ (pendingAnalyses # <<>> \/ ui.analyzing) ~> (pendingAnalyses = <<>> /\ ~ui.analyzing)
    /\ (pendingReads # <<>> \/ ui.loading) ~> (pendingReads = <<>> /\ ~ui.loading)

\* a read and an analysis were triggered, both have settled, and both flags
\* are false again
C13_Witness ==
    /\ started.uploads > 0
    /\ started.analyses > 0
    /\ result.state = "resolved"
    /\ pendingReads = <<>>
    /\ pendingAnalyses = <<>>
    /\ ~ui.analyzing
    /\ ~ui.loading


\* C14: a file is written only with a source table stored and a ColumnMapping
\* of at least one key, and its header row is the keys of that ColumnMapping
\* in the order the parsed answer has them (insertion order).
C14_HeadersInInsertionOrder ==
    lastDownload.written =>
        /\ lastDownload.source # NoTable
        /\ Len(lastDownload.mapping) > 0
        /\ lastDownload.file.aoa[1] = InsertionKeys(lastDownload.mapping)


\* the stored mapping has at least one key
MappingStored(u) == u.columnMapping.t = "object" /\ Len(u.columnMapping.entries) > 0

\* C15: in every reachable state a non-empty stored ColumnMapping comes from
\* an analysis of the table stored now (so a table is stored), and a file is
\* written only from a mapping computed on the table it is applied to.
C15_MappingBelongsToStoredTable ==
    /\ MappingStored(ui) => ui.sourceData # NoTable /\ mappingFrom = ui.sourceData
    /\ lastDownload.written => mappingFrom = lastDownload.source


\* C16: when a read settles with the parse rejected or with zero sheets, the
\* stored table, ColumnMapping and Suggestions are what they were before the
\* step; when it settles with at least one sheet, the first sheet is stored
\* and the mapping and the suggestions are emptied.
C16_OnlyParsedSheetChangesState ==
    [][\A i \in 1..Len(pendingReads) :
          ReadDone(i) =>
              IF Stores(pendingReads[i].file)
              THEN /\ ui'.sourceData = parseExcelFile(pendingReads[i].file).value[1]
                   /\ Cleared(ui')
              ELSE /\ ui'.sourceData = ui.sourceData
                   /\ ui'.columnMapping = ui.columnMapping
                   /\ ui'.suggestions = ui.suggestions]_vars

\* a read was just rejected while a table and a mapping with keys were stored,
\* and both are still there
C16_Witness ==
    /\ lastRead = "rejected"
    /\ ui.sourceData # NoTable
    /\ MappingStored(ui)
    /\ mappingFrom = ui.sourceData

====
